---- MODULE Spec2Model ----
(***************************************************************************)
(* A model of unsloth/models/rl.py: the run-time patching of TRL's trainer *)
(* and config classes.                                                     *)
(*                                                                         *)
(*   SpecPatch  patch_trl_rl_trainers / _patch_trl_rl_trainers / PatchRL:  *)
(*              the namespaces trl, trl.trainer and trl.trainer.<file>.    *)
(*   SpecSig    the synthesis of the two constructor signatures.           *)
(*   SpecCtor   the statements the generated trainer constructor runs.     *)
(*   SpecCtx    the context manager unsloth_unwrap_model_for_generation.   *)
(*                                                                         *)
(* Python identifiers are sequences of tokens: the class name GRPOTrainer  *)
(* is <<"GRPO", "Trainer">>, the module name grpo_trainer is               *)
(* <<"grpo", "trainer">>.  Source text is a sequence of characters, the    *)
(* characters that matter to the code standing alone ("NL" a newline, "BS" *)
(* a backslash, "SQ" a single quote, "CM" a comma) and every other run of  *)
(* characters as one string.                                               *)
(***************************************************************************)
EXTENDS Integers, Sequences, FiniteSets, TLC

VARIABLES
    \* ---- SpecPatch
    trl,            \* the attributes of trl that hold classes
    trl_trainer,    \* the attributes of trl.trainer that hold classes
    module_attr,    \* module_attr[m][n]: attribute n of trl.trainer.<m>
    module_unwrap,  \* trl.trainer.<m>.unwrap_model_for_generation
    lookup_raises,  \* the modules m for which eval("trl.trainer.<m>") raises
    attr_raises,    \* the <<m, n>> for which eval("trl.trainer.<m>.<n>") raises
    all_trainers,   \* patch_trl_rl_trainers: the list it iterates
    idx,            \* patch_trl_rl_trainers: the position in all_trainers
    pc,             \* "idle" | "loop"
    runs,           \* the calls of PatchFastRL made
    calls,          \* history: the calls of _patch_trl_rl_trainers made
    last,           \* history: the last call of _patch_trl_rl_trainers
    after_first,    \* history: the three namespaces when the first run ended
    \* ---- SpecSig
    RLTrainer_params,   \* inspect.signature(RLTrainer.__init__).parameters
    RLConfig_params,    \* inspect.signature(RLConfig.__init__).parameters
    synth,              \* the synthesized signatures and call arguments
    \* ---- SpecCtor
    ctor_pc,        \* the generated constructor's position
    ctor_in,        \* the constructor's arguments and the model's attributes
    args,           \* the attributes of the config object args
    environ,        \* os.environ['ACCELERATE_MIXED_PRECISION']
    \* ---- SpecCtx
    generate,       \* generate[m]: the attribute unwrapped_model.generate
    mode,           \* mode[m]: "training" | "inference"
    frames,         \* the active uses of the context manager, innermost last
    raising,        \* an exception is propagating out of a with block
    ctx_hist        \* history of the uses made

patch_vars == <<trl, trl_trainer, module_attr, module_unwrap, lookup_raises,
                attr_raises, all_trainers, idx, pc, runs, calls, last,
                after_first>>
sig_vars   == <<RLTrainer_params, RLConfig_params, synth>>
ctor_vars  == <<ctor_pc, ctor_in, args, environ>>
ctx_vars   == <<generate, mode, frames, raising, ctx_hist>>
vars       == <<patch_vars, sig_vars, ctor_vars, ctx_vars>>

(***************************************************************************)
(* Bounds of the model.                                                    *)
(***************************************************************************)
MaxRuns   == 2      \* calls of PatchFastRL
MaxParams == 3      \* parameters of a constructor, self excluded
MaxDepth  == 3      \* nested uses of the context manager
MaxUses   == 4      \* uses of the context manager in a behaviour

(***************************************************************************)
(* Sequence helpers.                                                       *)
(***************************************************************************)
Last(s) == s[Len(s)]

IsSuffix(t, s) ==
    /\ Len(t) <= Len(s)
    /\ \A i \in 1..Len(t) : t[i] = s[Len(s) - Len(t) + i]

\* t occurs in s as a contiguous run (Python's `t in s` on the joined text).
Occurs(t, s) ==
    \E i \in 0..(Len(s) - Len(t)) : \A j \in 1..Len(t) : s[i + j] = t[j]

(***************************************************************************)
(* Identifiers.                                                            *)
(***************************************************************************)
\* str.lower() of a token.
Lower(tok) ==
    CASE tok = "GRPO"      -> "grpo"
      [] tok = "SFT"       -> "sft"
      [] tok = "Iterative" -> "iterative"
      [] tok = "Trainer"   -> "trainer"
      [] tok = "Config"    -> "config"
      [] OTHER             -> tok

\* str.islower() of an identifier.
IsLower(name) == \A i \in 1..Len(name) : name[i] = Lower(name[i])

\* x.endswith("_trainer") of a module name.
EndsWith_trainer(x) == Len(x) >= 2 /\ Last(x) = "trainer"

\* trainer_file.split("_")[0] in x.lower()
PrefixIn(trainer_file, x) == \E i \in 1..Len(x) : Lower(x[i]) = Head(trainer_file)

GRPOTrainer         == <<"GRPO", "Trainer">>
GRPOConfig          == <<"GRPO", "Config">>
SFTTrainer          == <<"SFT", "Trainer">>
SFTConfig           == <<"SFT", "Config">>
IterativeSFTTrainer == <<"Iterative", "SFT", "Trainer">>
Trainer             == <<"Trainer">>

\* The class names the modelled modules may hold.
ClassNames == {GRPOTrainer, GRPOConfig, SFTTrainer, SFTConfig,
               IterativeSFTTrainer, Trainer}

grpo_trainer == <<"grpo", "trainer">>
sft_trainer  == <<"sft", "trainer">>

\* dir(trl.trainer), the submodules of it, in dir()'s sorted order.
TrainerDir == << <<"callbacks">>, <<"grpo", "config">>, grpo_trainer,
                 sft_trainer, <<"utils">> >>

\* The submodules whose attributes the model follows.
Modules == {grpo_trainer, sft_trainer}

(***************************************************************************)
(* Classes.  An original class of TRL is named by its __name__; a class    *)
(* of a created module also records the class it was generated from, the   *)
(* trainer file it was generated for and its constructor.                  *)
(***************************************************************************)
NoAttr == [__name__ |-> <<>>]

OriginalClass(n) == [__name__ |-> n]

\* Unsloth<n> of the module created for trainer_file: the class it is
\* generated from and the signature and forwarded arguments of its __init__.
GeneratedClass(n, from, trainer_file, arguments, call_args) ==
    [__name__ |-> <<"Unsloth">> \o n, generated_from |-> from,
     file |-> trainer_file, arguments |-> arguments, call_args |-> call_args]

\* StartsWithUnsloth with the check of lines 147-148 never succeeding.
StartsWithUnslothMutant(cls) == FALSE

\* cls.__name__.startswith("Unsloth")
StartsWithUnsloth(cls) ==
    cls.__name__ # <<>> /\ Head(cls.__name__) = "Unsloth"

(***************************************************************************)
(* The synthesis of the constructor signatures, lines 153-187 and 304-329. *)
(*                                                                         *)
(* A parameter is [name, default].  A default is EMPTY or a value          *)
(* [type, val], val being the characters of a str and the characters of    *)
(* str(v) for any other value.                                             *)
(***************************************************************************)
EMPTY == [type |-> "empty", val |-> <<>>]

None         == [type |-> "NoneType", val |-> <<"None">>]
PyFalse      == [type |-> "bool",     val |-> <<"False">>]
PyInt(t)     == [type |-> "int",      val |-> <<t>>]
PyFloat(t)   == [type |-> "float",    val |-> <<t>>]
PyStr(chars) == [type |-> "str",      val |-> chars]
PyObject     == [type |-> "other",    val |-> <<"<object>">>]

\* types = (bool, type(None), int, float, str,)
types == {"bool", "NoneType", "int", "float", "str"}

\* re.escape("\n"): a backslash followed by the newline itself.
re_escape_NL == <<"BS", "NL">>

\* Lines 163-164: v = v.default; if v == "\n": v = re.escape("\n")
Escaped(v) == IF v = PyStr(<<"NL">>) THEN PyStr(re_escape_NL) ELSE v

\* Lines 165-168: the text after "k = " in the signature; <<>> for a
\* parameter kept without a default.
DefaultText(v) ==
    IF v = EMPTY THEN <<>>
    ELSE IF v.type = "str" THEN <<"SQ">> \o v.val \o <<"SQ">>
    ELSE v.val

\* Lines 165-168: whether the parameter is kept (not `continue`d).
Kept(v) == v = EMPTY \/ v.type \in types

self == <<"self">>

\* Lines 159-170: arguments and call_args as lists, before the joins.  An
\* entry of arguments is [name, text], text the default's text; an entry of
\* call_args is [name, value], value the expression passed.
RECURSIVE ProcessedFrom(_, _, _)
ProcessedFrom(parameters, arguments, call_args) ==
    IF parameters = <<>> THEN [arguments |-> arguments, call_args |-> call_args]
    ELSE LET k == Head(parameters).name
             v == Escaped(Head(parameters).default)
         IN  IF k = self \/ ~Kept(v)
             THEN ProcessedFrom(Tail(parameters), arguments, call_args)
             ELSE ProcessedFrom(Tail(parameters),
                     Append(arguments, [name |-> k, text |-> DefaultText(v)]),
                     Append(call_args, [name |-> k, value |-> <<k>>]))

Processed(parameters) ==
    ProcessedFrom(parameters, <<[name |-> self, text |-> <<>>]>>, <<>>)

\* `k in parameters`: a key of the mapping inspect.signature returns.
InParameters(k, parameters) ==
    \E i \in 1..Len(parameters) : parameters[i].name = k

tokenizer        == <<"tokenizer">>
processing_class == <<"processing", "class">>

\* "processing_class = tokenizer if tokenizer is not None else processing_class"
TokenizerOrProcessingClass ==
    <<tokenizer, <<"if">>, tokenizer, <<"is not None else">>,
      processing_class>>

\* Lines 176-187.  `parameters` is the loop variable of lines 156-157 after
\* the loop over [RLTrainer, RLConfig]: the parameters of RLConfig.__init__.
AddTokenizer(processed, parameters) ==
    IF ~InParameters(tokenizer, parameters)
       /\ InParameters(processing_class, parameters)
    THEN [arguments |-> Append(processed.arguments,
                               [name |-> tokenizer, text |-> None.val]),
          call_args |-> [i \in 1..Len(processed.call_args) |->
                IF processed.call_args[i] =
                        [name |-> processing_class, value |-> <<processing_class>>]
                THEN [name |-> processing_class,
                      value |-> TokenizerOrProcessingClass]
                ELSE processed.call_args[i]]]
    ELSE processed

\* Lines 309-323, each value as the text line 326 makes of it.
replacements ==
    << [k |-> <<"output", "dir">>,                       y |-> <<"None">>],
       [k |-> <<"logging", "nan", "inf", "filter">>,     y |-> <<"False">>],
       [k |-> <<"per", "device", "train", "batch", "size">>, y |-> <<"4">>],
       [k |-> <<"gradient", "accumulation", "steps">>,   y |-> <<"2">>],
       [k |-> <<"weight", "decay">>,                     y |-> <<"0.01">>],
       [k |-> <<"warmup", "ratio">>,                     y |-> <<"0.1">>],
       [k |-> <<"seed">>,                                y |-> <<"3407">>],
       [k |-> <<"optim">>,             y |-> <<"SQ", "adamw_8bit", "SQ">>],
       [k |-> <<"learning", "rate">>,                    y |-> <<"5e-05">>],
       [k |-> <<"per", "device", "eval", "batch", "size">>, y |-> <<"4">>],
       [k |-> <<"eval", "accumulation", "steps">>,       y |-> <<"2">>],
       [k |-> <<"torch", "empty", "cache", "steps">>,    y |-> <<"250">>],
       [k |-> <<"logging", "steps">>,                    y |-> <<"1">>] >>

\* [^,\n]{1,} : one or more characters, none a comma or a newline.
NoCommaNoNewline(text) ==
    text # <<>> /\ \A i \in 1..Len(text) : text[i] \notin {"CM", "NL"}

\* Line 328, re.sub(f"{k}( = [^,\n]{{1,}})?,\n", f"{k} = {y},\n", arguments),
\* on the joined text of line 171.  ",\n" stands after every entry but the
\* last, so the pattern matches in entry i exactly when i is not the last,
\* the entry's name ends with k, and the entry has no default or a default
\* whose text holds no comma and no newline.
ReSub(r, arguments) ==
    [i \in 1..Len(arguments) |->
        IF /\ i < Len(arguments)
           /\ IsSuffix(r.k, arguments[i].name)
           /\ arguments[i].text = <<>> \/ NoCommaNoNewline(arguments[i].text)
        THEN [name |-> arguments[i].name, text |-> r.y]
        ELSE arguments[i]]

\* Lines 324-329: the loop over the replacement table.
RECURSIVE ReplaceAll(_, _)
ReplaceAll(table, arguments) ==
    IF table = <<>> THEN arguments
    ELSE ReplaceAll(Tail(table), ReSub(Head(table), arguments))

\* `s in call_args` on the joined text of line 172, for a name s.
InCallArgs(s, call_args) ==
    \E i \in 1..Len(call_args) :
        \/ Occurs(s, call_args[i].name)
        \/ \E j \in 1..Len(call_args[i].value) :
                Occurs(s, call_args[i].value[j])

\* Lines 189-293: the statements put before super().__init__ in the
\* generated trainer constructor, by name.
RLTrainer_extra_args(call_args) ==
       (IF InCallArgs(<<"args">>, call_args) /\ InCallArgs(<<"model">>, call_args)
        THEN {"mixed_precision"} ELSE {})
    \cup (IF InCallArgs(<<"args">>, call_args)
             /\ InCallArgs(<<"eval", "dataset">>, call_args)
        THEN {"check_eval_dataset"} ELSE {})
    \cup (IF InCallArgs(<<"args">>, call_args)
        THEN {"check_ga", "eval_changes"} ELSE {})
    \cup (IF InCallArgs(<<"model">>, call_args)
        THEN {"length_check", "training_check"} ELSE {})
    \cup {"PatchRLStatistics"}

\* Lines 153-187 and 300-329, 365-367: what _patch_trl_rl_trainers puts in
\* the template for the two constructors.
Synthesize(trainer_parameters, config_parameters) ==
    LET processed == <<Processed(trainer_parameters),
                       Processed(config_parameters)>>
        parameters == config_parameters
        RLTrainer == AddTokenizer(processed[1], parameters)
    IN  [processed            |-> processed,
         RLTrainer_arguments  |-> RLTrainer.arguments,
         RLTrainer_call_args  |-> RLTrainer.call_args,
         RLTrainer_extra_args |-> RLTrainer_extra_args(RLTrainer.call_args),
         RLConfig_arguments   |-> ReplaceAll(replacements, processed[2].arguments),
         RLConfig_call_args   |-> processed[2].call_args]

\* A string literal of the created module as Python reads it: a backslash
\* followed by a newline continues the line and stands for nothing.
RECURSIVE PyStringBody(_)
PyStringBody(chars) ==
    IF chars = <<>> THEN <<>>
    ELSE IF Len(chars) >= 2 /\ chars[1] = "BS" /\ chars[2] = "NL"
         THEN PyStringBody(SubSeq(chars, 3, Len(chars)))
         ELSE <<Head(chars)>> \o PyStringBody(Tail(chars))

\* The value Python gives a default written as `text` in a signature.
PyLiteral(text) ==
    IF Head(text) = "SQ"
    THEN PyStr(PyStringBody(SubSeq(text, 2, Len(text) - 1)))
    ELSE [type |-> CASE text = <<"None">>                   -> "NoneType"
                     [] text \in {<<"True">>, <<"False">>}  -> "bool"
                     [] text \in {<<"42">>, <<"3407">>, <<"4">>, <<"2">>,
                                  <<"250">>, <<"1">>}       -> "int"
                     [] OTHER                               -> "float",
          val  |-> text]

\* inspect.signature of a generated constructor: the parameters its
\* signature text declares, each default as Python reads it.
ParametersOf(arguments) ==
    [i \in 1..Len(arguments) |->
        [name    |-> arguments[i].name,
         default |-> IF arguments[i].text = <<>> THEN EMPTY
                     ELSE PyLiteral(arguments[i].text)]]

\* The parameters a modelled trainer constructor may have, with the
\* defaults each may have.
TrainerParams ==
    { [name |-> <<"model">>,           default |-> EMPTY],
      [name |-> <<"args">>,            default |-> None],
      [name |-> processing_class,      default |-> None],
      [name |-> tokenizer,             default |-> None],
      [name |-> <<"eval", "dataset">>, default |-> None],
      [name |-> <<"callbacks">>,       default |-> PyObject] }

\* The parameters a modelled config constructor may have.
ConfigParams ==
    { [name |-> <<"output", "dir">>,     default |-> EMPTY],
      [name |-> <<"output", "dir">>,     default |-> PyStr(<<"tmp_trainer">>)],
      [name |-> <<"seed">>,              default |-> PyInt("42")],
      [name |-> <<"data", "seed">>,      default |-> None],
      [name |-> <<"optim">>,             default |-> PyStr(<<"adamw_torch">>)],
      [name |-> <<"step", "separator">>, default |-> PyStr(<<"NL">>)],
      [name |-> <<"stop", "strings">>,   default |-> PyStr(<<"a", "CM", "b">>)],
      [name |-> <<"fp16">>,              default |-> PyFalse],
      [name |-> <<"warmup", "ratio">>,   default |-> PyFloat("0.0")],
      [name |-> processing_class,        default |-> None],
      [name |-> <<"data", "collator">>,  default |-> PyObject] }

\* The parameter lists of at most MaxParams parameters with distinct names,
\* self first.
ParameterLists(P) ==
    { <<[name |-> self, default |-> EMPTY]>> \o ps :
        ps \in { qs \in UNION { [1..n -> P] : n \in 0..MaxParams } :
                    \A i, j \in 1..Len(qs) :
                        i # j => qs[i].name # qs[j].name } }

InitSig ==
    /\ RLTrainer_params \in ParameterLists(TrainerParams)
    /\ RLConfig_params \in ParameterLists(ConfigParams)
    /\ synth = <<>>

\* Lines 153-367 of one call of _patch_trl_rl_trainers.
SynthesizeSignatures ==
    /\ synth = <<>> /\ RLTrainer_params # <<>>
    /\ synth' = Synthesize(RLTrainer_params, RLConfig_params)
    /\ UNCHANGED <<RLTrainer_params, RLConfig_params>>
    /\ UNCHANGED <<patch_vars, ctor_vars, ctx_vars>>

(***************************************************************************)
(* _patch_trl_rl_trainers(trainer_file), lines 123-148: the lookups and    *)
(* the early returns.                                                      *)
(***************************************************************************)
\* dir(trainer)
Dir(m) == {n \in ClassNames : module_attr[m][n] # NoAttr}

\* name = [x for x in dir(trainer) if x.endswith("Trainer") and
\*         x != "Trainer" and trainer_file.split("_")[0] in x.lower()]
TrainerNames(m) ==
    {x \in Dir(m) : Last(x) = "Trainer" /\ x # <<"Trainer">> /\ PrefixIn(m, x)}

\* config = [x for x in dir(trainer) if x.endswith("Config") and ...]
ConfigNames(m) ==
    {x \in Dir(m) : Last(x) = "Config" /\ x # <<"Config">> /\ PrefixIn(m, x)}

\* The single element of a list of length 1 (name[0], config[0]).
TheOne(S) == CHOOSE x \in S : TRUE

\* EarlyOutcome with `if len(name) != 1: return` weakened to `== 0`.
EarlyOutcomeMutant(m) ==
    IF m \in lookup_raises                              THEN "lookup_raised"
    ELSE IF Cardinality(TrainerNames(m)) = 0            THEN "name_count"
    ELSE IF Cardinality(ConfigNames(m)) # 1             THEN "config_count"
    ELSE IF <<m, TheOne(TrainerNames(m))>> \in attr_raises THEN "trainer_raised"
    ELSE IF <<m, TheOne(ConfigNames(m))>> \in attr_raises  THEN "config_raised"
    ELSE IF StartsWithUnsloth(module_attr[m][TheOne(TrainerNames(m))])
                                                        THEN "trainer_unsloth"
    ELSE IF StartsWithUnsloth(module_attr[m][TheOne(ConfigNames(m))])
                                                        THEN "config_unsloth"
    ELSE "none"

\* The early return _patch_trl_rl_trainers(m) takes, "none" when it takes
\* none.
EarlyOutcome(m) ==
    IF m \in lookup_raises                              THEN "lookup_raised"
    ELSE IF Cardinality(TrainerNames(m)) # 1            THEN "name_count"
    ELSE IF Cardinality(ConfigNames(m)) # 1             THEN "config_count"
    ELSE IF <<m, TheOne(TrainerNames(m))>> \in attr_raises THEN "trainer_raised"
    ELSE IF <<m, TheOne(ConfigNames(m))>> \in attr_raises  THEN "config_raised"
    ELSE IF StartsWithUnsloth(module_attr[m][TheOne(TrainerNames(m))])
                                                        THEN "trainer_unsloth"
    ELSE IF StartsWithUnsloth(module_attr[m][TheOne(ConfigNames(m))])
                                                        THEN "config_unsloth"
    ELSE "none"


\* A parameter list from <<name, default>> pairs, self first.
Params(pairs) ==
    <<[name |-> self, default |-> EMPTY]>> \o
    [i \in 1..Len(pairs) |-> [name |-> pairs[i][1], default |-> pairs[i][2]]]

\* inspect.signature(cls.__init__).parameters of the modelled classes.
ClassParameters(cls) ==
    IF "arguments" \in DOMAIN cls THEN ParametersOf(cls.arguments)
    ELSE CASE cls.__name__ = GRPOTrainer ->
                Params(<< <<<<"model">>, EMPTY>>, <<<<"args">>, None>>,
                          <<processing_class, None>>,
                          <<<<"callbacks">>, PyObject>> >>)
           [] cls.__name__ = SFTTrainer ->
                Params(<< <<<<"model">>, None>>, <<<<"args">>, None>>,
                          <<<<"eval", "dataset">>, None>>,
                          <<processing_class, None>> >>)
           [] cls.__name__ = IterativeSFTTrainer ->
                Params(<< <<<<"model">>, None>>, <<<<"args">>, None>> >>)
           [] cls.__name__ = GRPOConfig ->
                Params(<< <<<<"output", "dir">>, EMPTY>>,
                          <<<<"seed">>, PyInt("42")>>,
                          <<<<"data", "seed">>, None>> >>)
           [] cls.__name__ = SFTConfig ->
                Params(<< <<<<"output", "dir">>, EMPTY>>,
                          <<<<"optim">>, PyStr(<<"adamw_torch">>)>>,
                          <<<<"seed">>, PyInt("42")>> >>)
           [] OTHER -> Params(<<>>)

(***************************************************************************)
(* _patch_trl_rl_trainers(trainer_file), lines 150-415: the created module *)
(* and the six assignments.                                                *)
(***************************************************************************)
\* exec(f"from trl.trainer import ({RLTrainer_name}, {RLConfig_name},)")
\* raises ImportError when trl.trainer has no such attribute.
ImportRaises(RLTrainer_name, RLConfig_name) ==
    trl_trainer[RLTrainer_name] = NoAttr \/ trl_trainer[RLConfig_name] = NoAttr

\* AssignAll without line 413, the assignment of trl.trainer.<ConfigName>.
AssignAllMutant(m, RLTrainer_name, UnslothTrainer, RLConfig_name, UnslothConfig) ==
    [trl         |-> [trl EXCEPT ![RLTrainer_name] = UnslothTrainer,
                                  ![RLConfig_name]  = UnslothConfig],
     trl_trainer |-> [trl_trainer EXCEPT ![RLTrainer_name] = UnslothTrainer],
     module_attr |-> [module_attr EXCEPT ![m][RLTrainer_name] = UnslothTrainer,
                                          ![m][RLConfig_name]  = UnslothConfig]]

\* Lines 407-414: the namespaces after the six assignments.
AssignAll(m, RLTrainer_name, UnslothTrainer, RLConfig_name, UnslothConfig) ==
    [trl         |-> [trl EXCEPT ![RLTrainer_name] = UnslothTrainer,
                                  ![RLConfig_name]  = UnslothConfig],
     trl_trainer |-> [trl_trainer EXCEPT ![RLTrainer_name] = UnslothTrainer,
                                          ![RLConfig_name]  = UnslothConfig],
     module_attr |-> [module_attr EXCEPT ![m][RLTrainer_name] = UnslothTrainer,
                                          ![m][RLConfig_name]  = UnslothConfig]]

Namespaces == <<trl, trl_trainer, module_attr>>

\* The call returns early (lines 130-148): nothing is assigned.
PatchReturn ==
    /\ pc = "loop" /\ idx <= Len(all_trainers)
    /\ LET m == all_trainers[idx] IN
        /\ EarlyOutcome(m) # "none"
        /\ last' = [file |-> m, outcome |-> EarlyOutcome(m)]
    /\ idx' = idx + 1
    /\ calls' = calls + 1
    /\ UNCHANGED <<trl, trl_trainer, module_attr, module_unwrap, lookup_raises,
                   attr_raises, all_trainers, pc, runs, after_first>>
    /\ UNCHANGED <<sig_vars, ctor_vars, ctx_vars>>

\* The call raises at line 375: the exception leaves patch_trl_rl_trainers
\* and PatchFastRL, which catch nothing.
PatchRaise ==
    /\ pc = "loop" /\ idx <= Len(all_trainers)
    /\ LET m == all_trainers[idx] IN
        /\ EarlyOutcome(m) = "none"
        /\ ImportRaises(TheOne(TrainerNames(m)), TheOne(ConfigNames(m)))
        /\ last' = [file |-> m, outcome |-> "import_error"]
    /\ pc' = "idle"
    /\ calls' = calls + 1
    /\ after_first' = IF after_first = <<>> THEN Namespaces ELSE after_first
    /\ UNCHANGED <<trl, trl_trainer, module_attr, module_unwrap, lookup_raises,
                   attr_raises, all_trainers, idx, runs>>
    /\ UNCHANGED <<sig_vars, ctor_vars, ctx_vars>>

\* The call reaches its end (line 415).
PatchDone ==
    /\ pc = "loop" /\ idx <= Len(all_trainers)
    /\ LET m              == all_trainers[idx]
           RLTrainer_name == TheOne(TrainerNames(m))
           RLConfig_name  == TheOne(ConfigNames(m))
           RLTrainer      == module_attr[m][RLTrainer_name]
           RLConfig       == module_attr[m][RLConfig_name]
           source         == Synthesize(ClassParameters(RLTrainer),
                                        ClassParameters(RLConfig))
           created        == AssignAll(m,
                                RLTrainer_name,
                                GeneratedClass(RLTrainer_name, RLTrainer, m,
                                               source.RLTrainer_arguments,
                                               source.RLTrainer_call_args),
                                RLConfig_name,
                                GeneratedClass(RLConfig_name, RLConfig, m,
                                               source.RLConfig_arguments,
                                               source.RLConfig_call_args))
       IN
        /\ EarlyOutcome(m) = "none"
        /\ ~ImportRaises(RLTrainer_name, RLConfig_name)
        /\ trl' = created.trl
        /\ trl_trainer' = created.trl_trainer
        /\ module_attr' = created.module_attr
        /\ last' = [file |-> m, outcome |-> "patched"]
    /\ idx' = idx + 1
    /\ calls' = calls + 1
    /\ UNCHANGED <<module_unwrap, lookup_raises, attr_raises, all_trainers,
                   pc, runs, after_first>>
    /\ UNCHANGED <<sig_vars, ctor_vars, ctx_vars>>

(***************************************************************************)
(* PatchRL, patch_trl_rl_trainers and PatchFastRL.                         *)
(***************************************************************************)
\* PatchRL, lines 60-70: every module of dir(trl.trainer) ending in
\* "_trainer" that can be looked up and has unwrap_model_for_generation
\* gets unsloth_unwrap_model_for_generation.
PatchRL ==
    [m \in Modules |->
        IF /\ \E i \in 1..Len(TrainerDir) : TrainerDir[i] = m
           /\ EndsWith_trainer(m)
           /\ m \notin lookup_raises
           /\ module_unwrap[m] # "absent"
        THEN "unsloth" ELSE module_unwrap[m]]

\* all_trainers = [x for x in dir(trl.trainer)
\*                 if x.islower() and x.endswith("_trainer")]
IsTrainerFile(x) == IsLower(x) /\ EndsWith_trainer(x)
AllTrainers == SelectSeq(TrainerDir, IsTrainerFile)

\* PatchFastRL(algorithm, FastLanguageModel) up to the loop of
\* patch_trl_rl_trainers.
PatchFastRL ==
    /\ pc = "idle" /\ runs < MaxRuns
    /\ \E FastLanguageModel \in {"None", "FastLanguageModel"} :
        module_unwrap' = IF FastLanguageModel # "None" THEN PatchRL
                         ELSE module_unwrap
    /\ all_trainers' = AllTrainers
    /\ idx' = 1
    /\ pc' = "loop"
    /\ runs' = runs + 1
    /\ UNCHANGED <<trl, trl_trainer, module_attr, lookup_raises, attr_raises,
                   calls, last, after_first>>
    /\ UNCHANGED <<sig_vars, ctor_vars, ctx_vars>>

\* The loop of patch_trl_rl_trainers ends and PatchFastRL returns.
PatchFastRLReturn ==
    /\ pc = "loop" /\ idx > Len(all_trainers)
    /\ pc' = "idle"
    /\ after_first' = IF after_first = <<>> THEN Namespaces ELSE after_first
    /\ UNCHANGED <<trl, trl_trainer, module_attr, module_unwrap, lookup_raises,
                   attr_raises, all_trainers, idx, runs, calls, last>>
    /\ UNCHANGED <<sig_vars, ctor_vars, ctx_vars>>

\* A module's attributes before any patch: the names of S hold their classes.
AttrsOf(S) == [n \in ClassNames |-> IF n \in S THEN OriginalClass(n) ELSE NoAttr]

\* The contents a modelled trainer module may have.
DirChoices ==
    { {},
      {GRPOTrainer, GRPOConfig, Trainer},
      {GRPOTrainer, Trainer},
      {SFTTrainer, SFTConfig},
      {SFTTrainer, IterativeSFTTrainer, SFTConfig},
      {SFTTrainer, SFTConfig, GRPOTrainer, GRPOConfig},
      {IterativeSFTTrainer, SFTConfig},
      {GRPOConfig, SFTConfig} }

\* What trl.trainer (and trl) re-export.
ExportChoices ==
    { ClassNames, ClassNames \ {GRPOTrainer}, ClassNames \ {SFTConfig} }

PatchIdle ==
    /\ trl = AttrsOf({}) /\ trl_trainer = AttrsOf({})
    /\ module_attr = [m \in Modules |-> AttrsOf({})]
    /\ module_unwrap = [m \in Modules |-> "absent"]
    /\ lookup_raises = {} /\ attr_raises = {}
    /\ all_trainers = <<>> /\ idx = 1 /\ pc = "off" /\ runs = 0
    /\ calls = 0 /\ last = [file |-> <<>>, outcome |-> "none"]
    /\ after_first = <<>>

InitPatch ==
    /\ \E exported \in ExportChoices :
        /\ trl_trainer = AttrsOf(exported)
        /\ trl = AttrsOf(exported \ {Trainer})
    /\ module_attr \in [Modules -> {AttrsOf(S) : S \in DirChoices}]
    /\ module_unwrap \in [Modules -> {"absent", "trl"}]
    /\ lookup_raises \in SUBSET Modules
    /\ attr_raises \in { {}, {<<grpo_trainer, GRPOTrainer>>},
                         {<<sft_trainer, SFTConfig>>} }
    /\ all_trainers = <<>> /\ idx = 1 /\ pc = "idle" /\ runs = 0
    /\ calls = 0 /\ last = [file |-> <<>>, outcome |-> "none"]
    /\ after_first = <<>>

NextPatch ==
    \/ PatchFastRL
    \/ PatchReturn
    \/ PatchRaise
    \/ PatchDone
    \/ PatchFastRLReturn


SigIdle ==
    /\ RLTrainer_params = <<>> /\ RLConfig_params = <<>> /\ synth = <<>>

CtorIdle ==
    /\ ctor_pc = "off" /\ ctor_in = <<>> /\ args = <<>> /\ environ = "unset"

CtxIdle ==
    /\ generate = <<>> /\ mode = <<>> /\ frames = <<>> /\ raising = FALSE
    /\ ctx_hist = <<>>

InitPatchAll == InitPatch /\ SigIdle /\ CtorIdle /\ CtxIdle

SpecPatch == InitPatchAll /\ [][NextPatch]_vars


(***************************************************************************)
(* The generated trainer constructor: the statements of lines 189-293,     *)
(* which run before super().__init__, and the statement patch_vllm puts at *)
(* the top of the original __init__, lines 429-437.                        *)
(*                                                                         *)
(* args is the config object: a record of its attributes.  An attribute    *)
(* that is None or an int is {} or {n}; use_vllm is "absent", "False" or   *)
(* "True"; eval_dataset is "None" when args has no such attribute.         *)
(***************************************************************************)
\* mixed_precision with the second check reading `float16 and use_fp16`.
mixed_precisionMutant(a, env, float16) ==
    IF float16 /\ a.bf16 THEN [raised |-> TRUE, args |-> a, environ |-> env]
    ELSE IF float16 /\ a.fp16 THEN [raised |-> TRUE, args |-> a, environ |-> env]
    ELSE IF ~a.bf16 /\ ~a.fp16
    THEN [raised  |-> FALSE,
          args    |-> [a EXCEPT !.fp16 = float16, !.bf16 = ~float16],
          environ |-> IF float16 THEN "fp16" ELSE "bf16"]
    ELSE [raised |-> FALSE, args |-> a, environ |-> env]

\* Lines 192-205; float16 is `dtype == torch.float16`.
mixed_precision(a, env, float16) ==
    IF float16 /\ a.bf16 THEN [raised |-> TRUE, args |-> a, environ |-> env]
    ELSE IF ~float16 /\ a.fp16 THEN [raised |-> TRUE, args |-> a, environ |-> env]
    ELSE IF ~a.bf16 /\ ~a.fp16
    THEN [raised  |-> FALSE,
          args    |-> [a EXCEPT !.fp16 = float16, !.bf16 = ~float16],
          environ |-> IF float16 THEN "fp16" ELSE "bf16"]
    ELSE [raised |-> FALSE, args |-> a, environ |-> env]

\* Lines 214-218.  The condition reads the attribute eval_dataset of args,
\* not the constructor's argument eval_dataset.
check_eval_dataset(a) ==
    IF a.eval_dataset # "None" /\ a.eval_strategy = "no"
    THEN [a EXCEPT !.eval_strategy = "steps",
                   !.eval_steps = IF a.eval_steps = "None" THEN "0.1"
                                  ELSE a.eval_steps]
    ELSE a

\* Lines 233-236, ga_steps being set at line 224.
eval_batch(a) ==
    LET ga_steps == a.gradient_accumulation_steps
        eval_bsz == a.per_device_eval_batch_size
    IN  IF a.eval_strategy # "no"
        THEN [a EXCEPT
                !.per_device_eval_batch_size =
                    IF eval_bsz = 8 /\ a.per_device_train_batch_size < eval_bsz
                    THEN a.per_device_train_batch_size ELSE eval_bsz,
                !.eval_accumulation_steps =
                    IF a.eval_accumulation_steps = {} /\ ga_steps # {}
                    THEN ga_steps ELSE a.eval_accumulation_steps]
        ELSE a

\* Lines 237-241; the two locals are read once, at lines 237-238.
full_eval(a) ==
    LET fp16_full_eval == a.fp16_full_eval
        bf16_full_eval == a.bf16_full_eval
        a1 == IF a.fp16 /\ bf16_full_eval
              THEN [a EXCEPT !.bf16_full_eval = FALSE, !.fp16_full_eval = TRUE]
              ELSE a
        a2 == IF a1.bf16 /\ fp16_full_eval
              THEN [a1 EXCEPT !.bf16_full_eval = TRUE, !.fp16_full_eval = FALSE]
              ELSE a1
    IN  IF ~bf16_full_eval /\ ~fp16_full_eval
        THEN [a2 EXCEPT !.bf16_full_eval = a2.bf16, !.fp16_full_eval = a2.fp16]
        ELSE a2

\* Lines 232-242.
eval_changes(a) == full_eval(eval_batch(a))

\* The statements of RLTrainer_extra_args that act on args, in the order
\* lines 206-242 add them.
RunExtraArgs(blocks, a, env, float16) ==
    LET mp == IF "mixed_precision" \in blocks
              THEN mixed_precision(a, env, float16)
              ELSE [raised |-> FALSE, args |-> a, environ |-> env]
        a1 == IF "check_eval_dataset" \in blocks
              THEN check_eval_dataset(mp.args) ELSE mp.args
        a2 == IF "eval_changes" \in blocks THEN eval_changes(a1) ELSE a1
    IN  IF mp.raised THEN mp
        ELSE [raised |-> FALSE, args |-> a2, environ |-> mp.environ]

\* Lines 432-435, the statement put at the top of __init__:
\*   if hasattr(model, 'vllm_engine') and getattr(args, 'use_vllm') and
\*      getattr(args, 'use_vllm', False): args.use_vllm = True
\* getattr without a default raises AttributeError when args has no use_vllm.
set_use_vllm(a, has_vllm_engine) ==
    IF ~has_vllm_engine THEN [raised |-> FALSE, args |-> a]
    ELSE IF a.use_vllm = "absent" THEN [raised |-> TRUE, args |-> a]
    ELSE IF a.use_vllm = "True"
         THEN [raised |-> FALSE, args |-> [a EXCEPT !.use_vllm = "True"]]
         ELSE [raised |-> FALSE, args |-> a]

\* The trainer constructors the generated constructor is modelled for, by
\* their parameters.
CtorSignatures ==
    { << <<"model">>, <<"args">>, <<"eval", "dataset">> >>,
      << <<"model">>, <<"args">> >>,
      << <<"args">>, <<"eval", "dataset">> >> }

\* call_args of a constructor whose parameters all are kept.
CallArgsOf(names) == [i \in 1..Len(names) |-> [name |-> names[i], value |-> <<names[i]>>]]

HasParam(k) == \E i \in 1..Len(ctor_in.parameters) : ctor_in.parameters[i] = k

ArgsValues ==
    [bf16 : BOOLEAN, fp16 : BOOLEAN,
     eval_dataset : {"None", "dataset"},
     eval_strategy : {"no", "steps"},
     eval_steps : {"None", "500"},
     per_device_eval_batch_size : {4, 8},
     per_device_train_batch_size : {4, 16},
     eval_accumulation_steps : {{}, {1}},
     gradient_accumulation_steps : {{}, {2}},
     fp16_full_eval : BOOLEAN, bf16_full_eval : BOOLEAN,
     use_vllm : {"absent", "False", "True"}]

InitCtor ==
    /\ ctor_pc = "start"
    /\ args \in { a \in ArgsValues : ~(a.fp16_full_eval /\ a.bf16_full_eval) }
    /\ \E parameters \in CtorSignatures, float16 \in BOOLEAN,
          eval_dataset \in {"None", "dataset"}, vllm_engine \in BOOLEAN :
        ctor_in = [parameters   |-> parameters,
                   float16      |-> float16,
                   eval_dataset |-> IF \E i \in 1..Len(parameters) :
                                        parameters[i] = <<"eval", "dataset">>
                                    THEN eval_dataset ELSE "None",
                   vllm_engine  |-> vllm_engine,
                   args0        |-> args]
    /\ environ = "unset"

\* Unsloth<Trainer>.__init__ up to super().__init__ (template line 117).
CtorExtraArgs ==
    /\ ctor_pc = "start"
    /\ LET r == RunExtraArgs(RLTrainer_extra_args(CallArgsOf(ctor_in.parameters)),
                             args, environ, ctor_in.float16)
       IN  /\ ctor_pc' = IF r.raised THEN "TypeError" ELSE "super"
           /\ args' = r.args
           /\ environ' = r.environ
    /\ UNCHANGED ctor_in
    /\ UNCHANGED <<patch_vars, sig_vars, ctx_vars>>

\* super().__init__: the statement patch_vllm put at the top of the body.
CtorSetUseVllm ==
    /\ ctor_pc = "super"
    /\ LET r == set_use_vllm(args, ctor_in.vllm_engine)
       IN  /\ ctor_pc' = IF r.raised THEN "AttributeError" ELSE "body"
           /\ args' = r.args
    /\ UNCHANGED <<ctor_in, environ>>
    /\ UNCHANGED <<patch_vars, sig_vars, ctx_vars>>

(***************************************************************************)
(* unsloth_unwrap_model_for_generation, lines 33-58.                       *)
(*                                                                         *)
(* A use of the context manager is numbered in the order of entry.  The    *)
(* value of unwrapped_model.generate is the sequence of the uses whose     *)
(* generate_with_clone wrap it, outermost wrapper first: <<>> is the       *)
(* model's own generate, <<2, 1>> the wrapper of use 2 around the wrapper  *)
(* of use 1.  mode[m] records which of FastLanguageModel.for_inference and *)
(* for_training was last called on m; TRL's unwrap_model_for_generation is *)
(* taken to yield the model itself.                                        *)
(***************************************************************************)
Models == {"policy", "ref"}

\* generate_with_clone of use k around original_generate (lines 42-47).
generate_with_clone(k, original_generate) == <<k>> \o original_generate

\* What a call unwrapped_model.generate(...) returns for the value `out` of
\* the model's own generate: each wrapper clones a tensor (lines 43-46).
CallGenerate(fn, out) ==
    IF fn # <<>> /\ out = "tensor" THEN "clone" ELSE out

\* RestoreOnExit without line 54.
RestoreOnExitMutant(frame) ==
    [generate |-> generate,
     mode     |-> [mode EXCEPT ![frame.model] = "training"]]

\* The finally block, lines 52-55.
RestoreOnExit(frame) ==
    [generate |-> [generate EXCEPT ![frame.model] = frame.original_generate],
     mode     |-> [mode EXCEPT ![frame.model] = "training"]]

InitCtx ==
    /\ generate = [m \in Models |-> <<>>]
    /\ mode \in [Models -> {"training", "inference"}]
    /\ frames = <<>>
    /\ raising = FALSE
    /\ ctx_hist = [uses |-> 0, used |-> {}, returned |-> 0, raised |-> 0,
                   nested |-> FALSE, out |-> "none"]

\* Lines 35-51: the with statement is entered and the body begins.
Enter(m) ==
    /\ ~raising
    /\ Len(frames) < MaxDepth /\ ctx_hist.uses < MaxUses
    /\ LET k == ctx_hist.uses + 1
           original_generate == generate[m]
       IN  /\ mode' = [mode EXCEPT ![m] = "inference"]
           /\ generate' = [generate EXCEPT
                            ![m] = generate_with_clone(k, original_generate)]
           /\ frames' = Append(frames,
                            [model |-> m, use |-> k,
                             original_generate |-> original_generate,
                             on_entry |-> generate[m]])
           /\ ctx_hist' = [ctx_hist EXCEPT
                            !.uses = k,
                            !.used = @ \cup {m},
                            !.nested = @ \/ \E i \in 1..Len(frames) :
                                                frames[i].model = m]
    /\ UNCHANGED raising
    /\ UNCHANGED <<patch_vars, sig_vars, ctor_vars>>

\* The body calls unwrapped_model.generate.
BodyGenerates ==
    /\ ~raising /\ frames # <<>>
    /\ \E out \in {"tensor", "other"} :
        ctx_hist' = [ctx_hist EXCEPT
                        !.out = CallGenerate(generate[Last(frames).model], out)]
    /\ UNCHANGED <<generate, mode, frames, raising>>
    /\ UNCHANGED <<patch_vars, sig_vars, ctor_vars>>

\* The body of the innermost use returns.
BodyReturns ==
    /\ ~raising /\ frames # <<>>
    /\ generate' = RestoreOnExit(Last(frames)).generate
    /\ mode' = RestoreOnExit(Last(frames)).mode
    /\ frames' = SubSeq(frames, 1, Len(frames) - 1)
    /\ ctx_hist' = [ctx_hist EXCEPT !.returned = @ + 1]
    /\ UNCHANGED raising
    /\ UNCHANGED <<patch_vars, sig_vars, ctor_vars>>

\* The body of the innermost use raises, or an exception that left an inner
\* with statement leaves this body too.
BodyRaises ==
    /\ frames # <<>>
    /\ generate' = RestoreOnExit(Last(frames)).generate
    /\ mode' = RestoreOnExit(Last(frames)).mode
    /\ frames' = SubSeq(frames, 1, Len(frames) - 1)
    /\ raising' = TRUE
    /\ ctx_hist' = [ctx_hist EXCEPT !.raised = @ + 1]
    /\ UNCHANGED <<patch_vars, sig_vars, ctor_vars>>

\* The exception is caught, by an enclosing body or by the caller.
Caught ==
    /\ raising
    /\ raising' = FALSE
    /\ UNCHANGED <<generate, mode, frames, ctx_hist>>
    /\ UNCHANGED <<patch_vars, sig_vars, ctor_vars>>

(***************************************************************************)
(* Claims about the namespaces (SpecPatch).                                *)
(***************************************************************************)
IsGenerated(cls) == "generated_from" \in DOMAIN cls

\* The trainer and config names of a trainer file, read off the module.
NamesOf(m) == [trainer |-> TheOne(TrainerNames(m)),
               config  |-> TheOne(ConfigNames(m))]

\* C1: when _patch_trl_rl_trainers(trainer_file) has reached its end, the
\* three references trl.<TrainerName>, trl.trainer.<TrainerName> and
\* trl.trainer.<trainer_file>.<TrainerName> denote one generated class
\* Unsloth<TrainerName>, the three config references one generated class
\* Unsloth<ConfigName>, and none of the six denotes the original class.
C1_AllReferencesReplaced ==
    last.outcome = "patched" =>
        LET m == last.file
            T == NamesOf(m).trainer
            C == NamesOf(m).config
        IN  /\ trl[T] = trl_trainer[T] /\ trl_trainer[T] = module_attr[m][T]
            /\ IsGenerated(trl[T])
            /\ trl[T].__name__ = <<"Unsloth">> \o T
            /\ trl[T] # OriginalClass(T)
            /\ trl[C] = trl_trainer[C] /\ trl_trainer[C] = module_attr[m][C]
            /\ IsGenerated(trl[C])
            /\ trl[C].__name__ = <<"Unsloth">> \o C
            /\ trl[C] # OriginalClass(C)

\* C1's case: sft_trainer has been patched and PatchFastRL has returned.
C1_Witness ==
    /\ last.outcome = "patched" /\ last.file = sft_trainer
    /\ pc = "idle" /\ runs = 1
    /\ IsGenerated(trl[SFTTrainer]) /\ IsGenerated(trl[SFTConfig])

\* The cases in which C2 says a module cannot be patched, read off the state
\* before the call.
CannotPatch(m) ==
    \/ m \in lookup_raises
    \/ Cardinality(TrainerNames(m)) # 1
    \/ Cardinality(ConfigNames(m)) # 1
    \/ <<m, TheOne(TrainerNames(m))>> \in attr_raises
    \/ <<m, TheOne(ConfigNames(m))>> \in attr_raises

\* C2: a call of _patch_trl_rl_trainers on a module that cannot be patched
\* returns without raising and leaves every attribute of trl, trl.trainer
\* and the trainer modules as it was, and the loop of patch_trl_rl_trainers,
\* which runs over every lowercase *_trainer module, goes on to the next.
C2_Step ==
    (calls' = calls + 1 /\ CannotPatch(all_trainers[idx])) =>
        /\ trl' = trl /\ trl_trainer' = trl_trainer
        /\ module_attr' = module_attr /\ module_unwrap' = module_unwrap
        /\ last'.outcome # "import_error"
        /\ pc' = "loop" /\ idx' = idx + 1
        /\ all_trainers = AllTrainers
        /\ \A m \in Modules : IsTrainerFile(m) =>
                \E i \in 1..Len(all_trainers) : all_trainers[i] = m

\* C2 as a property of every step: a call of _patch_trl_rl_trainers on a
\* module that cannot be patched changes no namespace, does not raise, and
\* the loop goes on.
C2_FailureLeavesNamespaces == [][C2_Step]_vars

\* C2's case: the lookup of grpo_trainer raised, and the loop went on to
\* patch sft_trainer.
C2_Witness ==
    /\ grpo_trainer \in lookup_raises
    /\ runs = 1 /\ calls = 2
    /\ last.file = sft_trainer /\ last.outcome = "patched"

\* C6: once the first run of PatchFastRL has ended, no later run changes a
\* trainer or config reference of trl, trl.trainer or a trainer module, and
\* no generated class is generated from a generated class.
C6_Idempotent ==
    /\ after_first # <<>> => Namespaces = after_first
    /\ \A n \in ClassNames :
        /\ IsGenerated(trl[n]) => ~IsGenerated(trl[n].generated_from)
        /\ IsGenerated(trl_trainer[n]) =>
                ~IsGenerated(trl_trainer[n].generated_from)
        /\ \A m \in Modules : IsGenerated(module_attr[m][n]) =>
                ~IsGenerated(module_attr[m][n].generated_from)

\* C6's case: a second run has met the class the first run generated and
\* has returned.
C6_Witness ==
    /\ runs = 2 /\ pc = "idle"
    /\ last.outcome = "trainer_unsloth"
    /\ after_first # <<>> /\ IsGenerated(after_first[1][GRPOTrainer])


(***************************************************************************)
(* Claims about the synthesized signatures (SpecSig).                      *)
(***************************************************************************)
\* The parameters of a constructor but self.
NotSelf(p) == p.name # self
WithoutSelf(parameters) == SelectSeq(parameters, NotSelf)

IsKeptParam(p) == p.default = EMPTY \/ p.default.type \in types
KeptParams(parameters) == SelectSeq(WithoutSelf(parameters), IsKeptParam)

\* C3 for one class: the signature has self and then the kept parameters in
\* order, a parameter without default as a required one and a parameter with
\* a bool, NoneType, int, float or str default with that default; the
\* forwarded arguments are the kept parameters, each as k = k.
C3_Derived(parameters, arguments, call_args) ==
    LET kept == KeptParams(parameters) IN
    /\ Len(arguments) = Len(kept) + 1
    /\ \A i \in 1..Len(kept) :
        /\ arguments[i + 1].name = kept[i].name
        /\ IF kept[i].default = EMPTY
           THEN arguments[i + 1].text = <<>>
           ELSE /\ arguments[i + 1].text # <<>>
                /\ PyLiteral(arguments[i + 1].text) = kept[i].default
    /\ Len(call_args) = Len(kept)
    /\ \A i \in 1..Len(kept) :
        call_args[i] = [name |-> kept[i].name, value |-> <<kept[i].name>>]

\* C3: the signatures derived at lines 153-174 keep and omit the original
\* parameters as stated, each kept default being the original default, and
\* the arguments forwarded to super().__init__ are exactly the kept
\* parameters, each as k = k.
C3_SignatureDerived ==
    synth # <<>> =>
        /\ C3_Derived(RLTrainer_params, synth.processed[1].arguments,
                      synth.RLTrainer_call_args)
        /\ C3_Derived(RLConfig_params, synth.processed[2].arguments,
                      synth.RLConfig_call_args)

IsReplacementKey(name) ==
    \E i \in 1..Len(replacements) : replacements[i].k = name

ReplacementFor(name) ==
    replacements[CHOOSE i \in 1..Len(replacements) : replacements[i].k = name].y

\* C5: every kept parameter of the config signature whose name is a key of
\* the replacement table has the table's value as its default, wherever it
\* stands, and every other kept parameter has its default as derived from
\* the original.
C5_DefaultsReplaced ==
    synth # <<>> =>
        /\ Len(synth.RLConfig_arguments) = Len(synth.processed[2].arguments)
        /\ \A i \in 2..Len(synth.RLConfig_arguments) :
            LET e == synth.RLConfig_arguments[i]
                o == synth.processed[2].arguments[i]
            IN  /\ e.name = o.name
                /\ IF IsReplacementKey(e.name)
                   THEN e.text = ReplacementFor(e.name)
                   ELSE e.text = o.text

\* The trainer signature has the alias tokenizer = None added.
AliasAdded ==
    /\ Len(synth.RLTrainer_arguments) = Len(synth.processed[1].arguments) + 1
    /\ Last(synth.RLTrainer_arguments) = [name |-> tokenizer, text |-> <<"None">>]

\* C8: the alias tokenizer = None is added exactly when the trainer's own
\* constructor has processing_class and no tokenizer, and then
\* processing_class is forwarded as `tokenizer if tokenizer is not None else
\* processing_class`.
C8_TokenizerAlias ==
    synth # <<>> =>
        IF /\ InParameters(processing_class, RLTrainer_params)
           /\ ~InParameters(tokenizer, RLTrainer_params)
        THEN /\ AliasAdded
             /\ \A i \in 1..Len(synth.RLTrainer_call_args) :
                    synth.RLTrainer_call_args[i].name = processing_class =>
                        synth.RLTrainer_call_args[i].value =
                            TokenizerOrProcessingClass
        ELSE synth.RLTrainer_arguments = synth.processed[1].arguments

InitSigAll == PatchIdle /\ InitSig /\ CtorIdle /\ CtxIdle

NextSig == SynthesizeSignatures

SpecSig == InitSigAll /\ [][NextSig]_vars


(***************************************************************************)
(* Claims about the generated trainer constructor (SpecCtor).              *)
(***************************************************************************)
\* The statements before super().__init__ have run without raising.
PastExtraArgs == ctor_pc \in {"super", "body", "AttributeError"}

\* C4: with model and args among the original constructor's parameters, the
\* generated constructor raises TypeError exactly when (float16 and
\* args.bf16) or (not float16 and args.fp16); otherwise afterwards
\* args.fp16 = float16 and args.bf16 = not float16, exactly one of them is
\* true, and when neither was set on entry ACCELERATE_MIXED_PRECISION is
\* 'fp16' if float16 else 'bf16'.
C4_PrecisionDetection ==
    (ctor_pc # "start" /\ HasParam(<<"model">>) /\ HasParam(<<"args">>)) =>
        LET a0      == ctor_in.args0
            float16 == ctor_in.float16
        IN  /\ ctor_pc = "TypeError" <=>
                    ((float16 /\ a0.bf16) \/ (~float16 /\ a0.fp16))
            /\ PastExtraArgs =>
                /\ args.fp16 = float16
                /\ args.bf16 = ~float16
                /\ args.fp16 # args.bf16
                /\ (~a0.bf16 /\ ~a0.fp16) =>
                        environ = IF float16 THEN "fp16" ELSE "bf16"

\* C4's case: neither flag was set for a float16 model, and the constructor
\* has gone on to super().__init__.
C4_Witness ==
    /\ ctor_pc = "super"
    /\ HasParam(<<"model">>) /\ HasParam(<<"args">>)
    /\ ctor_in.float16 /\ ~ctor_in.args0.bf16 /\ ~ctor_in.args0.fp16
    /\ args.fp16 /\ environ = "fp16"

\* C9: with args and eval_dataset among the original constructor's
\* parameters, an evaluation dataset given by the caller with
\* args.eval_strategy 'no' switches evaluation on (eval_strategy 'steps',
\* eval_steps 0.1 if it was None); and whenever eval_strategy is not 'no',
\* a per_device_eval_batch_size of 8 is lowered to a smaller
\* per_device_train_batch_size and an eval_accumulation_steps of None
\* becomes gradient_accumulation_steps.
C9_EvalSwitchedOn ==
    (PastExtraArgs /\ HasParam(<<"args">>) /\ HasParam(<<"eval", "dataset">>)) =>
        LET a0 == ctor_in.args0 IN
        /\ (ctor_in.eval_dataset # "None" /\ a0.eval_strategy = "no") =>
                /\ args.eval_strategy = "steps"
                /\ a0.eval_steps = "None" => args.eval_steps = "0.1"
        /\ args.eval_strategy # "no" =>
                /\ (a0.per_device_eval_batch_size = 8
                    /\ a0.per_device_train_batch_size < 8) =>
                        args.per_device_eval_batch_size =
                            a0.per_device_train_batch_size
                /\ a0.eval_accumulation_steps = {} =>
                        args.eval_accumulation_steps =
                            a0.gradient_accumulation_steps

\* C10: after the statement patch_vllm puts at the top of __init__,
\* args.use_vllm is True when the model has a vllm_engine attribute and
\* args.use_vllm was not already true, and is unchanged when the model has
\* no vllm_engine attribute.
C10_UseVllmSet ==
    ctor_pc \in {"body", "AttributeError"} =>
        /\ (ctor_in.vllm_engine /\ ctor_in.args0.use_vllm # "True") =>
                ctor_pc = "body" /\ args.use_vllm = "True"
        /\ ~ctor_in.vllm_engine =>
                ctor_pc = "body" /\ args.use_vllm = ctor_in.args0.use_vllm

InitCtorAll == PatchIdle /\ SigIdle /\ InitCtor /\ CtxIdle

NextCtor ==
    \/ CtorExtraArgs
    \/ CtorSetUseVllm

SpecCtor == InitCtorAll /\ [][NextCtor]_vars


(***************************************************************************)
(* Claims about the context manager (SpecCtx).                             *)
(***************************************************************************)
\* The innermost active use on model m.
InnermostOn(m) ==
    frames[CHOOSE i \in 1..Len(frames) :
            /\ frames[i].model = m
            /\ \A j \in (i + 1)..Len(frames) : frames[j].model # m]

IsActive(m) == \E i \in 1..Len(frames) : frames[i].model = m

\* A use is entered: the model is put in inference mode and generate is the
\* cloning wrapper of this use around the function it was.
C7_OnEntry ==
    Len(frames') = Len(frames) + 1 =>
        LET f == Last(frames') IN
        /\ mode'[f.model] = "inference"
        /\ generate'[f.model] = <<f.use>> \o generate[f.model]
        /\ CallGenerate(generate'[f.model], "tensor") = "clone"

\* A use is left, by return or by exception: generate is the function it
\* was on entry to that use and the model is in training mode.
C7_OnExit ==
    Len(frames') = Len(frames) - 1 =>
        LET f == Last(frames) IN
        /\ generate'[f.model] = f.on_entry
        /\ mode'[f.model] = "training"

\* Inside a body generate is the wrapper of the innermost use on the model;
\* with no use active on a model that was used, no wrapper is installed and
\* the model is not in inference mode.
C7_State ==
    \A m \in Models :
        IF IsActive(m)
        THEN generate[m] = <<InnermostOn(m).use>> \o InnermostOn(m).on_entry
        ELSE /\ generate[m] = <<>>
             /\ m \in ctx_hist.used => mode[m] = "training"

\* C7: every use of unsloth_unwrap_model_for_generation, nested uses on the
\* same model included, enters its body with the model put in inference
\* mode and generate the cloning wrapper, and leaves it, by return or by
\* exception, with generate the function it was on entry to that use and
\* the model put back in training mode; no exit leaves a wrapper installed.
C7_WrapperRestored == [][C7_OnEntry /\ C7_OnExit /\ C7_State']_vars

\* C7's case: uses nested on one model have been left, one of them by an
\* exception, and none is active.
C7_Witness ==
    /\ frames = <<>> /\ ctx_hist.nested
    /\ ctx_hist.raised >= 1 /\ ctx_hist.returned >= 1
    /\ ctx_hist.out = "clone"
    /\ \A m \in Models : generate[m] = <<>>

InitCtxAll == PatchIdle /\ SigIdle /\ CtorIdle /\ InitCtx

NextCtx ==
    \/ \E m \in Models : Enter(m)
    \/ BodyGenerates
    \/ BodyReturns
    \/ BodyRaises
    \/ Caught

SpecCtx == InitCtxAll /\ [][NextCtx]_vars

====
